---- MODULE Spec2Model ----
(***************************************************************************)
(* Model of the compliance evaluation engine of construction-safety-monitor *)
(* (src/sop_comparator.py) as driven by its callers (src/main.py,           *)
(* src/app.py, src/test_sop_comparator.py).                                 *)
(*                                                                          *)
(* Similarity scores and thresholds are integers in units of 1/ScoreScale:  *)
(* 0.5 is 5000, the default threshold 0.70 is 7000.                         *)
(***************************************************************************)
EXTENDS Integers, Sequences, FiniteSets, TLC

VARIABLES
    pc,             \* position of the caller: start, constructed, configured, loaded, matched, analyzed, failed
    model,          \* self.model: the loaded similarity backend, a table (action, description) -> score
    threshold,      \* self.threshold
    sop,            \* the SOP dictionary returned by load_sop
    video_actions,  \* the observation list handed to analyze_sequence
    results,        \* the list analyze_sequence returned
    error,          \* the exception that left the last call, "none" when it returned
    match_arg,      \* the action text of a direct find_best_match call
    match,          \* what that call returned
    fault,          \* the backend raises when asked to encode for the fault-th time (1-based), 0: never
    summary,        \* what generate_summary returned
    chk,            \* direct calls of the two checks: the arguments and what each returned
    sm,             \* direct calls of generate_summary: the comparator, the lists and what each call returned
    run,            \* the rest of main after the analysis: alerts, alert_count, reports, exit code
    vid             \* analyze_video runs on one host: /tmp and each run's position

vars == <<pc, model, threshold, sop, video_actions, results, error, match_arg, match,
          fault, summary, chk, sm, run, vid>>

----------------------------------------------------------------------------
(* Bounds and constants *)

MaxSteps == 2
MaxObs == 2
MaxItems == 2
MaxResults == 3
MaxFrames == 2

ScoreScale == 10000
Half == 5000
DefaultThreshold == 7000

\* Scores the backend may report for a pair of texts.
Scores == {4000, 6996, 8000}

\* Values SIMILARITY_THRESHOLD / --threshold may carry: inside (0,1) below and
\* above 0.5, and the two ends of the interval, which lie outside it.
Thresholds == {0, 3000, DefaultThreshold, ScoreScale}

Actions == {"measuring wall", "hammering nails"}

StepCatalog ==
    { [id |-> 1, action |-> "Measure wall", required_tools |-> <<"Tape">>],
      [id |-> 2, action |-> "Cut material", required_tools |-> <<"saw">>] }

Descriptions == {s.action : s \in StepCatalog}

\* A missing worker_action is read as "" (dict.get), which the backend is then
\* asked to encode; it scores the empty text lowest against every description.
Texts == Actions \cup {""}

LowScore == CHOOSE x \in Scores : \A y \in Scores : x <= y

Providers ==
    { [p \in Texts \X Descriptions |-> IF p[1] = "" THEN LowScore ELSE q[p]] :
        q \in [Actions \X Descriptions -> Scores] }

SeqsUpTo(S, n) == UNION {[1..k -> S] : k \in 0..n}

SOPs ==
    { [task_name |-> "Test Task", safety_equipment |-> <<"Hard Hat">>, steps |-> st] :
        st \in SeqsUpTo(StepCatalog, MaxSteps) }

\* What a worker is seen with: tools_visible, safety_equipment, timestamp,
\* potential_hazards.
Gear ==
    { [tools_visible |-> <<"tape", "">>, safety_equipment |-> <<"hard hat">>, timestamp |-> 10,
       potential_hazards |-> <<>>],
      [tools_visible |-> <<"SAW", "hammer">>, safety_equipment |-> <<>>, timestamp |-> 5,
       potential_hazards |-> <<"dust">>] }

Observations ==
    { [timestamp |-> g.timestamp, worker_action |-> a, tools_visible |-> g.tools_visible,
       safety_equipment |-> g.safety_equipment,
       potential_hazards |-> g.potential_hazards] : a \in Actions, g \in Gear }

ObsSeqs == SeqsUpTo(Observations, MaxObs)

\* Inputs with a field missing: a step without "action", an observation
\* without "worker_action".
MalformedSteps == { [id |-> 3, required_tools |-> <<"saw">>] }

MalformedObservations ==
    { [timestamp |-> 5, tools_visible |-> <<"SAW", "tape">>, safety_equipment |-> <<"hard hat">>] }

AnySOPs ==
    { [task_name |-> "Test Task", safety_equipment |-> <<"Hard Hat">>, steps |-> st] :
        st \in SeqsUpTo(StepCatalog \cup MalformedSteps, MaxSteps) }

AnyObsSeqs == SeqsUpTo(Observations \cup MalformedObservations, MaxObs)

NoMatch == [raised |-> "uncalled"]
NoSop == [task_name |-> "", safety_equipment |-> <<>>, steps |-> <<>>]
NoSummary == [generated |-> FALSE]

\* Names as they come in tools_visible / required_tools lists.
Items == {"drill", "Drill", "screws", ""}

ItemLists == SeqsUpTo(Items, MaxItems)

\* Hand-made results as the summary test passes them: the results that are
\* no deviation carry no timestamp.
ResultCatalog ==
    { [is_deviation |-> FALSE, severity |-> "none", similarity_score |-> 9000,
       tool_compliance |-> [is_compliant |-> TRUE],
       safety_compliance |-> [is_compliant |-> TRUE]],
      [is_deviation |-> TRUE, severity |-> "high", similarity_score |-> 4000,
       tool_compliance |-> [is_compliant |-> FALSE],
       safety_compliance |-> [is_compliant |-> FALSE], timestamp |-> 10],
      [is_deviation |-> FALSE, severity |-> "none", similarity_score |-> 8500,
       tool_compliance |-> [is_compliant |-> TRUE],
       safety_compliance |-> [is_compliant |-> TRUE]],
      [is_deviation |-> TRUE, severity |-> "medium", similarity_score |-> 6000,
       tool_compliance |-> [is_compliant |-> FALSE],
       safety_compliance |-> [is_compliant |-> TRUE], timestamp |-> 3] }

RECURSIVE SumScores(_)
SumScores(rs) == IF rs = <<>> THEN 0 ELSE Head(rs).similarity_score + SumScores(Tail(rs))

\* The mean of the scores lies exactly halfway between two three-decimal
\* values: what round() returns there depends on the floating-point error of
\* the sum, which integers do not show.
MeanTie(rs) == Len(rs) > 0 /\ 2 * (SumScores(rs) % (10 * Len(rs))) = 10 * Len(rs)

ResultLists == {rs \in SeqsUpTo(ResultCatalog, MaxResults) : ~MeanTie(rs)}

NoCheck == [called |-> FALSE]
NoSummaryCalls == [phase |-> "none"]
NoRun == [stage |-> "none"]
NoVideo == [started |-> FALSE]
NoChecks == [observed |-> <<>>, required |-> <<>>, tool |-> NoCheck, safety |-> NoCheck]

----------------------------------------------------------------------------
(* Helpers: dict.get, str.lower, list membership, round *)

Get(d, k, default) == IF k \in DOMAIN d THEN d[k] ELSE default

Lower(s) ==
    CASE s = "Tape" -> "tape"
      [] s = "SAW" -> "saw"
      [] s = "Hard Hat" -> "hard hat"
      [] s = "Drill" -> "drill"
      [] OTHER -> s

LowerAll(xs) == [j \in 1..Len(xs) |-> Lower(xs[j])]

Range(xs) == {xs[j] : j \in 1..Len(xs)}

\* round(x, 3): scores are in 1/10000, three decimals are multiples of 10.
Round3(x) == ((x + 5) \div 10) * 10

----------------------------------------------------------------------------
(* find_best_match *)

Similarities(m, action, sop_descriptions) ==
    [j \in 1..Len(sop_descriptions) |-> m[<<action, sop_descriptions[j]>>]]

RECURSIVE ArgMaxScan(_, _, _)
ArgMaxScan(s, j, best) ==
    IF j > Len(s) THEN best
    ELSE ArgMaxScan(s, j + 1, IF s[j] > s[best] THEN j ELSE best)

RECURSIVE ArgMaxScanLast(_, _, _)
ArgMaxScanLast(s, j, best) ==
    IF j > Len(s) THEN best
    ELSE ArgMaxScanLast(s, j + 1, IF s[j] >= s[best] THEN j ELSE best)

ArgMaxLast(s) == ArgMaxScanLast(s, 2, 1) - 1

\* similarities.argmax(): the 0-based index of the first maximal value.
ArgMax(s) == ArgMaxScan(s, 2, 1) - 1

BestStepFirst(sop_steps, best_idx) == sop_steps[1]

\* sop_steps[best_idx] with a 0-based index.
BestStep(sop_steps, best_idx) == sop_steps[best_idx + 1]

\* similarities[0][best_idx]
BestScore(similarities, best_idx) == similarities[best_idx + 1]

\* step["action"] raises KeyError for a step without that key.
\* fails: self.model.encode raises in this call; nothing here catches it.
\* With no steps the backend is asked to encode an empty list and to take the
\* argmax of an empty tensor, which raises inside the backend.
find_best_match(m, action, sop_steps, fails) ==
    IF \E j \in 1..Len(sop_steps) : "action" \notin DOMAIN sop_steps[j]
    THEN [raised |-> "KeyError"]
    ELSE IF fails
    THEN [raised |-> "BackendError"]
    ELSE IF Len(sop_steps) = 0
    THEN [raised |-> "RuntimeError"]
    ELSE LET sop_descriptions == [j \in 1..Len(sop_steps) |-> sop_steps[j].action]
             similarities == Similarities(m, action, sop_descriptions)
             best_idx == ArgMax(similarities)
         IN  [raised |-> "none",
              idx |-> best_idx,
              score |-> BestScore(similarities, best_idx),
              step |-> BestStep(sop_steps, best_idx)]

----------------------------------------------------------------------------
(* check_tool_compliance, check_safety_equipment *)

CheckToolNoLower(observed_tools, required_tools) ==
    LET observed_tools_lower == observed_tools
        required_tools_lower == LowerAll(required_tools)
        missing_tools == SelectSeq(required_tools_lower,
                                   LAMBDA t : t \notin Range(observed_tools_lower))
        wrong_tools == SelectSeq(observed_tools_lower,
                                 LAMBDA t : t \notin Range(required_tools_lower) /\ t # "")
    IN  [is_compliant |-> Len(missing_tools) = 0,
         missing_tools |-> missing_tools,
         wrong_tools |-> wrong_tools,
         observed |-> observed_tools_lower,
         required |-> required_tools_lower]

CheckToolEnforceWrong(observed_tools, required_tools) ==
    LET observed_tools_lower == LowerAll(observed_tools)
        required_tools_lower == LowerAll(required_tools)
        missing_tools == SelectSeq(required_tools_lower,
                                   LAMBDA t : t \notin Range(observed_tools_lower))
        wrong_tools == SelectSeq(observed_tools_lower,
                                 LAMBDA t : t \notin Range(required_tools_lower) /\ t # "")
    IN  [is_compliant |-> Len(missing_tools) = 0 /\ Len(wrong_tools) = 0,
         missing_tools |-> missing_tools,
         wrong_tools |-> wrong_tools,
         observed |-> observed_tools_lower,
         required |-> required_tools_lower]

check_tool_compliance(observed_tools, required_tools) ==
    LET observed_tools_lower == LowerAll(observed_tools)
        required_tools_lower == LowerAll(required_tools)
        missing_tools == SelectSeq(required_tools_lower,
                                   LAMBDA t : t \notin Range(observed_tools_lower))
        wrong_tools == SelectSeq(observed_tools_lower,
                                 LAMBDA t : t \notin Range(required_tools_lower) /\ t # "")
    IN  [is_compliant |-> Len(missing_tools) = 0,
         missing_tools |-> missing_tools,
         wrong_tools |-> wrong_tools,
         observed |-> observed_tools_lower,
         required |-> required_tools_lower]

CheckSafetyRawRequired(observed_equipment, required_equipment) ==
    LET observed_lower == LowerAll(observed_equipment)
        required_lower == LowerAll(required_equipment)
        missing_equipment == SelectSeq(required_equipment,
                                       LAMBDA e : e \notin Range(observed_lower))
    IN  [is_compliant |-> Len(missing_equipment) = 0,
         missing_equipment |-> missing_equipment,
         observed |-> observed_lower,
         required |-> required_lower]

CheckSafetyAnyPresent(observed_equipment, required_equipment) ==
    LET observed_lower == LowerAll(observed_equipment)
        required_lower == LowerAll(required_equipment)
        missing_equipment == SelectSeq(required_lower,
                                       LAMBDA e : e \notin Range(observed_lower))
    IN  [is_compliant |-> Len(missing_equipment) < Len(required_lower) \/ Len(required_lower) = 0,
         missing_equipment |-> missing_equipment,
         observed |-> observed_lower,
         required |-> required_lower]

check_safety_equipment(observed_equipment, required_equipment) ==
    LET observed_lower == LowerAll(observed_equipment)
        required_lower == LowerAll(required_equipment)
        missing_equipment == SelectSeq(required_lower,
                                       LAMBDA e : e \notin Range(observed_lower))
    IN  [is_compliant |-> Len(missing_equipment) = 0,
         missing_equipment |-> missing_equipment,
         observed |-> observed_lower,
         required |-> required_lower]

----------------------------------------------------------------------------
(* analyze_sequence *)

IsDeviationNoSafety(similarity, thr, tool_check, safety_check) ==
    similarity < thr \/ ~tool_check.is_compliant

IsDeviationNoTool(similarity, thr, tool_check, safety_check) ==
    similarity < thr \/ ~safety_check.is_compliant

IsDeviation(similarity, thr, tool_check, safety_check) ==
    \/ similarity < thr
    \/ ~tool_check.is_compliant
    \/ ~safety_check.is_compliant

SeverityRule1Medium(similarity, thr, tool_check, safety_check) ==
    IF similarity < Half THEN "medium"
    ELSE IF similarity < thr THEN "medium"
    ELSE IF ~safety_check.is_compliant THEN "high"
    ELSE IF ~tool_check.is_compliant THEN "medium"
    ELSE "low"

SeveritySwap12(similarity, thr, tool_check, safety_check) ==
    IF similarity < Half THEN "medium"
    ELSE IF similarity < thr THEN "high"
    ELSE IF ~safety_check.is_compliant THEN "high"
    ELSE IF ~tool_check.is_compliant THEN "medium"
    ELSE "low"

SeverityToolFirst(similarity, thr, tool_check, safety_check) ==
    IF similarity < Half THEN "high"
    ELSE IF similarity < thr THEN "medium"
    ELSE IF ~tool_check.is_compliant THEN "medium"
    ELSE IF ~safety_check.is_compliant THEN "high"
    ELSE "low"

SeveritySafetyFirst(similarity, thr, tool_check, safety_check) ==
    IF similarity < Half THEN "high"
    ELSE IF ~safety_check.is_compliant THEN "high"
    ELSE IF similarity < thr THEN "medium"
    ELSE IF ~tool_check.is_compliant THEN "medium"
    ELSE "low"

SeverityToolLow(similarity, thr, tool_check, safety_check) ==
    IF similarity < Half THEN "high"
    ELSE IF similarity < thr THEN "medium"
    ELSE IF ~safety_check.is_compliant THEN "high"
    ELSE "low"

\* The if/elif ladder.
Severity(similarity, thr, tool_check, safety_check) ==
    IF similarity < Half THEN "high"
    ELSE IF similarity < thr THEN "medium"
    ELSE IF ~safety_check.is_compliant THEN "high"
    ELSE IF ~tool_check.is_compliant THEN "medium"
    ELSE "low"

ReportedSeverityAlways(severity, is_deviation) == severity

\* severity if is_deviation else "none"
ReportedSeverity(severity, is_deviation) ==
    IF is_deviation THEN severity ELSE "none"

EvaluateOrdered(thr, s, i, action_data, bm) ==
    LET action_desc == Get(action_data, "worker_action", "")
        timestamp == Get(action_data, "timestamp", 0)
        tool_check == check_tool_compliance(Get(action_data, "tools_visible", <<>>),
                                            Get(bm.step, "required_tools", <<>>))
        safety_check == check_safety_equipment(Get(action_data, "safety_equipment", <<>>),
                                               Get(s, "safety_equipment", <<>>))
        is_deviation == bm.idx # i \/ IsDeviation(bm.score, thr, tool_check, safety_check)
        severity == Severity(bm.score, thr, tool_check, safety_check)
    IN  [frame_number |-> i,
         timestamp |-> timestamp,
         observed_action |-> action_desc,
         matched_sop_step |-> Get(bm.step, "action", ""),
         step_number |-> bm.idx + 1,
         similarity_score |-> Round3(bm.score),
         is_deviation |-> is_deviation,
         severity |-> ReportedSeverity(severity, is_deviation),
         tool_compliance |-> tool_check,
         safety_compliance |-> safety_check,
         location |-> Get(action_data, "location_zone", "unknown"),
         potential_hazards |-> Get(action_data, "potential_hazards", <<>>)]

EvaluateFirstStepTools(thr, s, i, action_data, bm) ==
    LET action_desc == Get(action_data, "worker_action", "")
        timestamp == Get(action_data, "timestamp", 0)
        tool_check == check_tool_compliance(Get(action_data, "tools_visible", <<>>),
                                            Get(s.steps[1], "required_tools", <<>>))
        safety_check == check_safety_equipment(Get(action_data, "safety_equipment", <<>>),
                                               Get(s, "safety_equipment", <<>>))
        is_deviation == IsDeviation(bm.score, thr, tool_check, safety_check)
        severity == Severity(bm.score, thr, tool_check, safety_check)
    IN  [frame_number |-> i,
         timestamp |-> timestamp,
         observed_action |-> action_desc,
         matched_sop_step |-> Get(bm.step, "action", ""),
         step_number |-> bm.idx + 1,
         similarity_score |-> Round3(bm.score),
         is_deviation |-> is_deviation,
         severity |-> ReportedSeverity(severity, is_deviation),
         tool_compliance |-> tool_check,
         safety_compliance |-> safety_check,
         location |-> Get(action_data, "location_zone", "unknown"),
         potential_hazards |-> Get(action_data, "potential_hazards", <<>>)]

EvaluateRounded(thr, s, i, action_data, bm) ==
    LET action_desc == Get(action_data, "worker_action", "")
        timestamp == Get(action_data, "timestamp", 0)
        tool_check == check_tool_compliance(Get(action_data, "tools_visible", <<>>),
                                            Get(bm.step, "required_tools", <<>>))
        safety_check == check_safety_equipment(Get(action_data, "safety_equipment", <<>>),
                                               Get(s, "safety_equipment", <<>>))
        is_deviation == IsDeviation(Round3(bm.score), thr, tool_check, safety_check)
        severity == Severity(Round3(bm.score), thr, tool_check, safety_check)
    IN  [frame_number |-> i,
         timestamp |-> timestamp,
         observed_action |-> action_desc,
         matched_sop_step |-> Get(bm.step, "action", ""),
         step_number |-> bm.idx + 1,
         similarity_score |-> Round3(bm.score),
         is_deviation |-> is_deviation,
         severity |-> ReportedSeverity(severity, is_deviation),
         tool_compliance |-> tool_check,
         safety_compliance |-> safety_check,
         location |-> Get(action_data, "location_zone", "unknown"),
         potential_hazards |-> Get(action_data, "potential_hazards", <<>>)]

\* The body of the loop once the step is matched; i is the 0-based index.
Evaluate(thr, s, i, action_data, bm) ==
    LET action_desc == Get(action_data, "worker_action", "")
        timestamp == Get(action_data, "timestamp", 0)
        tool_check == check_tool_compliance(Get(action_data, "tools_visible", <<>>),
                                            Get(bm.step, "required_tools", <<>>))
        safety_check == check_safety_equipment(Get(action_data, "safety_equipment", <<>>),
                                               Get(s, "safety_equipment", <<>>))
        is_deviation == IsDeviation(bm.score, thr, tool_check, safety_check)
        severity == Severity(bm.score, thr, tool_check, safety_check)
    IN  [frame_number |-> i,
         timestamp |-> timestamp,
         observed_action |-> action_desc,
         matched_sop_step |-> Get(bm.step, "action", ""),
         step_number |-> bm.idx + 1,
         similarity_score |-> Round3(bm.score),
         is_deviation |-> is_deviation,
         severity |-> ReportedSeverity(severity, is_deviation),
         tool_compliance |-> tool_check,
         safety_compliance |-> safety_check,
         location |-> Get(action_data, "location_zone", "unknown"),
         potential_hazards |-> Get(action_data, "potential_hazards", <<>>)]

RECURSIVE AnalyzeFromSwallow(_, _, _, _, _, _, _)
AnalyzeFromSwallow(m, thr, va, s, i, acc, flt) ==
    IF i > Len(va)
    THEN [raised |-> "none", results |-> acc]
    ELSE LET action_data == va[i]
             bm == find_best_match(m, Get(action_data, "worker_action", ""),
                                   Get(s, "steps", <<>>), i = flt)
         IN  IF bm.raised # "none"
             THEN [raised |-> "none", results |-> acc]
             ELSE AnalyzeFromSwallow(m, thr, va, s, i + 1,
                                     Append(acc, Evaluate(thr, s, i - 1, action_data, bm)), flt)

RECURSIVE AnalyzeFromPrepend(_, _, _, _, _, _, _)
AnalyzeFromPrepend(m, thr, va, s, i, acc, flt) ==
    IF i > Len(va)
    THEN [raised |-> "none", results |-> acc]
    ELSE LET action_data == va[i]
             bm == find_best_match(m, Get(action_data, "worker_action", ""),
                                   Get(s, "steps", <<>>), i = flt)
         IN  IF bm.raised # "none"
             THEN [raised |-> bm.raised, results |-> <<>>]
             ELSE AnalyzeFromPrepend(m, thr, va, s, i + 1,
                                     <<Evaluate(thr, s, i - 1, action_data, bm)>> \o acc, flt)

\* The for loop from observation i (1-based) on; an exception leaves the
\* method, and the results gathered so far with it.
RECURSIVE AnalyzeFrom(_, _, _, _, _, _, _)
AnalyzeFrom(m, thr, va, s, i, acc, flt) ==
    IF i > Len(va)
    THEN [raised |-> "none", results |-> acc]
    ELSE LET action_data == va[i]
             bm == find_best_match(m, Get(action_data, "worker_action", ""),
                                   Get(s, "steps", <<>>), i = flt)
         IN  IF bm.raised # "none"
             THEN [raised |-> bm.raised, results |-> <<>>]
             ELSE AnalyzeFrom(m, thr, va, s, i + 1,
                              Append(acc, Evaluate(thr, s, i - 1, action_data, bm)), flt)

analyze_sequence(m, thr, va, s, flt) == AnalyzeFrom(m, thr, va, s, 1, <<>>, flt)

----------------------------------------------------------------------------
(* generate_summary *)

\* a / b rounded to the nearest integer, for a >= 0 and b > 0.
RoundDiv(a, b) == (2 * a + b) \div (2 * b)

\* The elements of a set of numbers in ascending order.
RECURSIVE SortedSeq(_)
SortedSeq(S) ==
    IF S = {} THEN <<>>
    ELSE LET least == CHOOSE x \in S : \A y \in S : x <= y
         IN  <<least>> \o SortedSeq(S \ {least})

GenerateSummaryDeviationRate(compliance_results) ==
    LET total_frames == Len(compliance_results)
        deviations == SelectSeq(compliance_results, LAMBDA r : r.is_deviation)
        high_severity == SelectSeq(deviations, LAMBDA r : r.severity = "high")
        medium_severity == SelectSeq(deviations, LAMBDA r : r.severity = "medium")
        tool_violations == SelectSeq(compliance_results,
                                     LAMBDA r : ~r.tool_compliance.is_compliant)
        safety_violations == SelectSeq(compliance_results,
                                       LAMBDA r : ~r.safety_compliance.is_compliant)
    IN  [total_frames_analyzed |-> total_frames,
         total_deviations |-> Len(deviations),
         high_severity_count |-> Len(high_severity),
         medium_severity_count |-> Len(medium_severity),
         compliance_rate |->
             IF total_frames > 0
             THEN RoundDiv(1000 * Len(deviations), total_frames)
             ELSE 0,
         average_similarity |->
             IF total_frames > 0
             THEN 10 * RoundDiv(SumScores(compliance_results), 10 * total_frames)
             ELSE 0,
         tool_violations |-> Len(tool_violations),
         safety_violations |-> Len(safety_violations),
         deviation_timestamps |-> [j \in 1..Len(deviations) |-> deviations[j].timestamp]]

GenerateSummaryMeanOfDeviations(compliance_results) ==
    LET total_frames == Len(compliance_results)
        deviations == SelectSeq(compliance_results, LAMBDA r : r.is_deviation)
        high_severity == SelectSeq(deviations, LAMBDA r : r.severity = "high")
        medium_severity == SelectSeq(deviations, LAMBDA r : r.severity = "medium")
        tool_violations == SelectSeq(compliance_results,
                                     LAMBDA r : ~r.tool_compliance.is_compliant)
        safety_violations == SelectSeq(compliance_results,
                                       LAMBDA r : ~r.safety_compliance.is_compliant)
    IN  [total_frames_analyzed |-> total_frames,
         total_deviations |-> Len(deviations),
         high_severity_count |-> Len(high_severity),
         medium_severity_count |-> Len(medium_severity),
         compliance_rate |->
             IF total_frames > 0
             THEN RoundDiv(1000 * (total_frames - Len(deviations)), total_frames)
             ELSE 0,
         average_similarity |->
             IF total_frames > 0
             THEN IF Len(deviations) > 0
                  THEN 10 * RoundDiv(SumScores(deviations), 10 * Len(deviations))
                  ELSE 0
             ELSE 0,
         tool_violations |-> Len(tool_violations),
         safety_violations |-> Len(safety_violations),
         deviation_timestamps |-> [j \in 1..Len(deviations) |-> deviations[j].timestamp]]

GenerateSummarySortedTimes(compliance_results) ==
    LET total_frames == Len(compliance_results)
        deviations == SelectSeq(compliance_results, LAMBDA r : r.is_deviation)
        high_severity == SelectSeq(deviations, LAMBDA r : r.severity = "high")
        medium_severity == SelectSeq(deviations, LAMBDA r : r.severity = "medium")
        tool_violations == SelectSeq(compliance_results,
                                     LAMBDA r : ~r.tool_compliance.is_compliant)
        safety_violations == SelectSeq(compliance_results,
                                       LAMBDA r : ~r.safety_compliance.is_compliant)
    IN  [total_frames_analyzed |-> total_frames,
         total_deviations |-> Len(deviations),
         high_severity_count |-> Len(high_severity),
         medium_severity_count |-> Len(medium_severity),
         compliance_rate |->
             IF total_frames > 0
             THEN RoundDiv(1000 * (total_frames - Len(deviations)), total_frames)
             ELSE 0,
         average_similarity |->
             IF total_frames > 0
             THEN 10 * RoundDiv(SumScores(compliance_results), 10 * total_frames)
             ELSE 0,
         tool_violations |-> Len(tool_violations),
         safety_violations |-> Len(safety_violations),
         deviation_timestamps |->
             SortedSeq({deviations[j].timestamp : j \in 1..Len(deviations)})]

\* compliance_rate is in tenths of a percent, average_similarity in 1/ScoreScale.
generate_summary(compliance_results) ==
    LET total_frames == Len(compliance_results)
        deviations == SelectSeq(compliance_results, LAMBDA r : r.is_deviation)
        high_severity == SelectSeq(deviations, LAMBDA r : r.severity = "high")
        medium_severity == SelectSeq(deviations, LAMBDA r : r.severity = "medium")
        tool_violations == SelectSeq(compliance_results,
                                     LAMBDA r : ~r.tool_compliance.is_compliant)
        safety_violations == SelectSeq(compliance_results,
                                       LAMBDA r : ~r.safety_compliance.is_compliant)
    IN  [total_frames_analyzed |-> total_frames,
         total_deviations |-> Len(deviations),
         high_severity_count |-> Len(high_severity),
         medium_severity_count |-> Len(medium_severity),
         compliance_rate |->
             IF total_frames > 0
             THEN RoundDiv(1000 * (total_frames - Len(deviations)), total_frames)
             ELSE 0,
         average_similarity |->
             IF total_frames > 0
             THEN 10 * RoundDiv(SumScores(compliance_results), 10 * total_frames)
             ELSE 0,
         tool_violations |-> Len(tool_violations),
         safety_violations |-> Len(safety_violations),
         deviation_timestamps |-> [j \in 1..Len(deviations) |-> deviations[j].timestamp]]

----------------------------------------------------------------------------
(* The caller's steps *)

Init ==
    /\ pc = "start"
    /\ model = [p \in Texts \X Descriptions |-> 0]
    /\ threshold = DefaultThreshold
    /\ sop = NoSop
    /\ video_actions = <<>>
    /\ results = <<>>
    /\ error = "none"
    /\ match_arg = ""
    /\ match = NoMatch
    /\ fault = 0
    /\ summary = NoSummary
    /\ chk = NoChecks
    /\ sm = NoSummaryCalls
    /\ run = NoRun
    /\ vid = NoVideo

\* SOPComparator(): loads the backend, reads SIMILARITY_THRESHOLD unchecked.
Construct ==
    /\ pc = "start"
    /\ \E m \in Providers, t \in Thresholds :
          /\ model' = m
          /\ threshold' = t
    /\ pc' = "constructed"
    /\ UNCHANGED <<sop, video_actions, results, error, match_arg, match, fault, summary, chk, sm, run, vid>>

\* comparator.threshold = args.threshold
SetThreshold ==
    /\ pc = "constructed"
    /\ \E t \in Thresholds : threshold' = t
    /\ pc' = "configured"
    /\ UNCHANGED <<model, sop, video_actions, results, error, match_arg, match, fault, summary, chk, sm, run, vid>>

\* load_sop returns what the JSON file holds, unvalidated.
LoadSopFrom(files) ==
    /\ pc \in {"constructed", "configured"}
    /\ \E s \in files : sop' = s
    /\ pc' = "loaded"
    /\ UNCHANGED <<model, threshold, video_actions, results, error, match_arg, match, fault, summary, chk, sm, run, vid>>

LoadSop == LoadSopFrom(SOPs)

LoadAnySop == LoadSopFrom(AnySOPs)

\* A direct call of find_best_match on the loaded steps.
FindBestMatch ==
    /\ pc = "loaded"
    /\ \E a \in Actions, f \in 0..1 :
          LET bm == find_best_match(model, a, sop.steps, f = 1)
          IN  /\ match_arg' = a
              /\ fault' = f
              /\ IF bm.raised = "none"
                 THEN match' = bm /\ error' = "none"
                 ELSE match' = NoMatch /\ error' = bm.raised
    /\ pc' = "matched"
    /\ UNCHANGED <<model, threshold, sop, video_actions, results, summary, chk, sm, run, vid>>

\* compliance_results = comparator.analyze_sequence(video_actions, sop)
\* summary = comparator.generate_summary(compliance_results)
\* Both stand in one try block: an exception in the first skips the second.
AnalyzeSequenceFrom(inputs) ==
    /\ pc = "loaded"
    /\ \E va \in inputs :
          \E f \in 0..Len(va) :
             LET out == analyze_sequence(model, threshold, va, sop, f)
             IN  /\ video_actions' = va
                 /\ fault' = f
                 /\ IF out.raised = "none"
                    THEN /\ results' = out.results
                         /\ summary' = generate_summary(out.results)
                         /\ error' = "none"
                         /\ pc' = "analyzed"
                    ELSE /\ results' = results
                         /\ summary' = summary
                         /\ error' = out.raised
                         /\ pc' = "failed"
    /\ UNCHANGED <<model, threshold, sop, match_arg, match, chk, sm, run, vid>>

AnalyzeSequence == AnalyzeSequenceFrom(ObsSeqs)

AnalyzeAnySequence == AnalyzeSequenceFrom(AnyObsSeqs)

Next ==
    \/ Construct
    \/ SetThreshold
    \/ LoadSop
    \/ FindBestMatch
    \/ AnalyzeSequence

Spec == Init /\ [][Next]_vars

\* The two checks called directly, as the tests do, on one pair of lists.
InitChecks ==
    /\ pc = "constructed"
    /\ model = [p \in Texts \X Descriptions |-> LowScore]
    /\ threshold = DefaultThreshold
    /\ sop = NoSop
    /\ video_actions = <<>>
    /\ results = <<>>
    /\ error = "none"
    /\ match_arg = ""
    /\ match = NoMatch
    /\ fault = 0
    /\ summary = NoSummary
    /\ \E o \in ItemLists, q \in ItemLists :
          chk = [observed |-> o, required |-> q, tool |-> NoCheck, safety |-> NoCheck]
    /\ sm = NoSummaryCalls
    /\ run = NoRun
    /\ vid = NoVideo

CheckToolCompliance ==
    /\ pc = "constructed"
    /\ chk.tool = NoCheck
    /\ chk' = [chk EXCEPT !.tool = check_tool_compliance(chk.observed, chk.required)]
    /\ UNCHANGED <<pc, model, threshold, sop, video_actions, results, error, match_arg,
                   match, fault, summary, sm, run, vid>>

CheckSafetyEquipment ==
    /\ pc = "constructed"
    /\ chk.safety = NoCheck
    /\ chk' = [chk EXCEPT !.safety = check_safety_equipment(chk.observed, chk.required)]
    /\ UNCHANGED <<pc, model, threshold, sop, video_actions, results, error, match_arg,
                   match, fault, summary, sm, run, vid>>

NextChecks ==
    \/ CheckToolCompliance
    \/ CheckSafetyEquipment

SpecChecks == InitChecks /\ [][NextChecks]_vars

\* The same run on inputs that may lack a field.
NextAnyInput ==
    \/ Construct
    \/ SetThreshold
    \/ LoadAnySop
    \/ AnalyzeAnySequence

SpecAnyInput == Init /\ [][NextAnyInput]_vars

----------------------------------------------------------------------------
(* generate_summary called directly, as the tests do *)

\* One call of generate_summary: what it returns, and the comparator and the
\* argument list as the call leaves them. The method assigns no attribute of
\* self and calls no mutating method of the list.
SummaryCallAdapting(self, compliance_results) ==
    LET ret == generate_summary(compliance_results)
        below == SelectSeq(compliance_results,
                           LAMBDA r : r.similarity_score < self.threshold)
    IN  [ret |-> [ret EXCEPT !.total_deviations = Len(below)],
         self |-> [self EXCEPT !.threshold = ret.average_similarity],
         compliance_results |-> compliance_results]

SummaryCall(self, compliance_results) ==
    [ret |-> generate_summary(compliance_results),
     self |-> self,
     compliance_results |-> compliance_results]

\* The comparator of the test fixture, no SOP loaded, nothing analysed.
InitSummary ==
    /\ pc = "constructed"
    /\ model = [p \in Texts \X Descriptions |-> LowScore]
    /\ threshold = DefaultThreshold
    /\ sop = NoSop
    /\ video_actions = <<>>
    /\ results = <<>>
    /\ error = "none"
    /\ match_arg = ""
    /\ match = NoMatch
    /\ fault = 0
    /\ summary = NoSummary
    /\ chk = NoChecks
    /\ sm = [phase |-> "constructed"]
    /\ run = NoRun
    /\ vid = NoVideo

\* summary = comparator.generate_summary(compliance_results), the first call.
SummarizeFirst ==
    /\ sm.phase = "constructed"
    /\ \E rs \in ResultLists :
          LET c == SummaryCall([model |-> model, threshold |-> threshold], rs)
          IN  /\ sm' = [phase |-> "first", first |-> rs, first_out |-> c.ret,
                        between |-> <<>>, arg |-> rs, after |-> c.compliance_results, out |-> c.ret]
              /\ model' = c.self.model
              /\ threshold' = c.self.threshold
    /\ UNCHANGED <<pc, sop, video_actions, results, error, match_arg, match, fault,
                   summary, chk, run, vid>>

\* A call on another list in between.
SummarizeOther ==
    /\ sm.phase = "first"
    /\ \E rs \in ResultLists \ {sm.first} :
          LET c == SummaryCall([model |-> model, threshold |-> threshold], rs)
          IN  /\ sm' = [sm EXCEPT !.phase = "other", !.between = <<rs>>, !.arg = rs,
                                  !.after = c.compliance_results, !.out = c.ret]
              /\ model' = c.self.model
              /\ threshold' = c.self.threshold
    /\ UNCHANGED <<pc, sop, video_actions, results, error, match_arg, match, fault,
                   summary, chk, run, vid>>

\* The call on the list of the first call, as that call left it, again.
SummarizeAgain ==
    /\ sm.phase \in {"first", "other"}
    /\ LET c == SummaryCall([model |-> model, threshold |-> threshold], sm.first)
       IN  /\ sm' = [sm EXCEPT !.phase = "again", !.arg = sm.first,
                               !.after = c.compliance_results, !.out = c.ret]
           /\ model' = c.self.model
           /\ threshold' = c.self.threshold
    /\ UNCHANGED <<pc, sop, video_actions, results, error, match_arg, match, fault,
                   summary, chk, run, vid>>

NextSummary ==
    \/ SummarizeFirst
    \/ SummarizeOther
    \/ SummarizeAgain

SpecSummary == InitSummary /\ [][NextSummary]_vars

----------------------------------------------------------------------------
(* main after the analysis: alerts, reports, exit code *)

\* The SOP file named on the command line: both steps of the catalogue.
ConfiguredSOPs ==
    { [task_name |-> "Test Task", safety_equipment |-> <<"Hard Hat">>,
       steps |-> << [id |-> 1, action |-> "Measure wall", required_tools |-> <<"Tape">>],
                    [id |-> 2, action |-> "Cut material", required_tools |-> <<"saw">>] >>] }

\* str.upper on a severity.
Upper(sev) ==
    IF sev = "high" THEN "HIGH"
    ELSE IF sev = "medium" THEN "MEDIUM"
    ELSE IF sev = "low" THEN "LOW"
    ELSE IF sev = "none" THEN "NONE"
    ELSE sev

\* MM:SS as the pair (minutes, seconds).
format_timestamp(seconds) == <<seconds \div 60, seconds % 60>>

\* The alert text of one result, as the fields it is formatted from.
generate_deviation_alert(compliance_result) ==
    LET tool_comp == Get(compliance_result, "tool_compliance", [x \in {} |-> x])
        safety_comp == Get(compliance_result, "safety_compliance", [x \in {} |-> x])
    IN  [severity |-> Upper(Get(compliance_result, "severity", "medium")),
         time |-> format_timestamp(Get(compliance_result, "timestamp", 0)),
         step |-> Get(compliance_result, "step_number", "N/A"),
         expected |-> Get(compliance_result, "matched_sop_step", "Unknown"),
         observed |-> Get(compliance_result, "observed_action", "Unknown"),
         score |-> Get(compliance_result, "similarity_score", 0),
         missing_tools |->
             IF ~Get(tool_comp, "is_compliant", TRUE)
             THEN Get(tool_comp, "missing_tools", <<>>) ELSE <<>>,
         wrong_tools |->
             IF ~Get(tool_comp, "is_compliant", TRUE)
             THEN Get(tool_comp, "wrong_tools", <<>>) ELSE <<>>,
         missing_equipment |->
             IF ~Get(safety_comp, "is_compliant", TRUE)
             THEN Get(safety_comp, "missing_equipment", <<>>) ELSE <<>>,
         hazards |-> Get(compliance_result, "potential_hazards", <<>>)]

GenerateBatchAlertsForAll(alert_count, compliance_results) ==
    [alerts |-> [k \in 1..Len(compliance_results) |->
                    generate_deviation_alert(compliance_results[k])],
     alert_count |-> alert_count + Len(compliance_results)]

\* The loop over the results; every generate_deviation_alert call adds one
\* to self.alert_count.
generate_batch_alerts(alert_count, compliance_results) ==
    LET deviating == SelectSeq(compliance_results,
                               LAMBDA r : Get(r, "is_deviation", FALSE))
    IN  [alerts |-> [k \in 1..Len(deviating) |-> generate_deviation_alert(deviating[k])],
         alert_count |-> alert_count + Len(deviating)]

\* The if/elif/else on the summary that ends the try block.
ExitRequest(s) ==
    IF Get(s, "high_severity_count", 0) > 0 THEN 2
    ELSE IF Get(s, "total_deviations", 0) > 0 THEN 1
    ELSE 0

ExitStatusCatchAll(exc, code) ==
    IF exc = "KeyboardInterrupt" THEN 130 ELSE 1

\* The except clauses: KeyboardInterrupt, then Exception. SystemExit is no
\* Exception and passes both with the code it carries.
ExitStatus(exc, code) ==
    IF exc = "KeyboardInterrupt" THEN 130
    ELSE IF exc = "SystemExit" THEN code
    ELSE 1

\* main calls analyze_sequence only with a non-empty video_actions (it exits
\* before when the video yields no action).
MainAnalyzeSequence == AnalyzeSequenceFrom(ObsSeqs \ {<<>>})

LoadConfiguredSop == LoadSopFrom(ConfiguredSOPs)

\* alert_gen = AlertGenerator(); alerts = alert_gen.generate_batch_alerts(compliance_results)
GenerateBatchAlerts ==
    /\ pc = "analyzed"
    /\ run = NoRun
    /\ LET out == generate_batch_alerts(0, results)
       IN  run' = [stage |-> "alerted", alerts |-> out.alerts,
                   alert_count |-> out.alert_count]
    /\ UNCHANGED <<pc, model, threshold, sop, video_actions, results, error, match_arg,
                   match, fault, summary, chk, sm, vid>>

\* The reports are built, written and printed; writing a file may raise
\* OSError. With alerts present the high-severity alerts are generated once
\* more for the console.
WriteReports ==
    /\ pc = "analyzed"
    /\ run.stage = "alerted"
    /\ \E written \in BOOLEAN :
          IF written
          THEN LET high == SelectSeq(results,
                                     LAMBDA r : Get(r, "is_deviation", FALSE)
                                                /\ Get(r, "severity", "") = "high")
               IN  /\ run' = [run EXCEPT !.stage = "reported",
                                         !.alert_count =
                                             IF run.alerts # <<>>
                                             THEN run.alert_count + Len(high)
                                             ELSE run.alert_count]
                   /\ UNCHANGED <<pc, error>>
          ELSE /\ run' = [run EXCEPT !.stage = "raised"]
               /\ error' = "OSError"
               /\ pc' = "failed"
    /\ UNCHANGED <<model, threshold, sop, video_actions, results, match_arg,
                   match, fault, summary, chk, sm, vid>>

\* sys.exit(...) at the end of the try block.
Exit ==
    /\ run.stage = "reported"
    /\ run' = [stage |-> "exited", alerts |-> run.alerts, alert_count |-> run.alert_count,
               requested |-> TRUE,
               exit_code |-> ExitStatus("SystemExit", ExitRequest(summary))]
    /\ UNCHANGED <<pc, model, threshold, sop, video_actions, results, error, match_arg,
                   match, fault, summary, chk, sm, vid>>

\* An exception of the analysis or of the report files reaches the handler.
HandleError ==
    /\ pc = "failed"
    /\ run.stage \in {"none", "raised"}
    /\ run' = [stage |-> "exited", alerts |-> Get(run, "alerts", <<>>),
               alert_count |-> Get(run, "alert_count", 0),
               requested |-> FALSE,
               exit_code |-> ExitStatus(error, 0)]
    /\ UNCHANGED <<pc, model, threshold, sop, video_actions, results, error, match_arg,
                   match, fault, summary, chk, sm, vid>>

NextMain ==
    \/ Construct
    \/ SetThreshold
    \/ LoadConfiguredSop
    \/ MainAnalyzeSequence
    \/ GenerateBatchAlerts
    \/ WriteReports
    \/ Exit
    \/ HandleError

SpecMain == Init /\ [][NextMain]_vars

----------------------------------------------------------------------------
(* analyze_video: two runs on one host *)

\* The two processes that run analyze_video at the same time.
Runs == {1, 2}

\* The frame files /tmp/frame_0.jpg, /tmp/frame_1.jpg, ... by their number.
FramePaths == 0..(MaxFrames - 1)

\* /tmp holds for each frame path the run whose cv2.imwrite wrote the file
\* last, or NoFile when no such file exists.
NoFile == [exists |-> FALSE]
FileOf(p) == [exists |-> TRUE, written_by |-> p]

\* Each run decodes a video of one or more extracted frames; both runs have
\* entered extract_frames and written nothing yet.
InitVideo ==
    /\ pc = "constructed"
    /\ model = [q \in Texts \X Descriptions |-> LowScore]
    /\ threshold = DefaultThreshold
    /\ sop = NoSop
    /\ video_actions = <<>>
    /\ results = <<>>
    /\ error = "none"
    /\ match_arg = ""
    /\ match = NoMatch
    /\ fault = 0
    /\ summary = NoSummary
    /\ chk = NoChecks
    /\ sm = NoSummaryCalls
    /\ run = NoRun
    /\ \E lengths \in [Runs -> 1..MaxFrames] :
          vid = [started |-> TRUE,
                 tmp |-> [k \in FramePaths |-> NoFile],
                 runs |-> [p \in Runs |->
                             [at |-> "extracting", length |-> lengths[p],
                              extracted_count |-> 0, frames |-> <<>>,
                              i |-> 1, analysed |-> <<>>]]]

\* analyze_video touches no comparator, summary or alert state.
VideoOnly ==
    UNCHANGED <<pc, model, threshold, sop, video_actions, results, error, match_arg,
                match, fault, summary, chk, sm, run>>

\* One pass of the while loop of extract_frames that saves a frame:
\* cv2.imwrite to /tmp/frame_{extracted_count}.jpg, whatever is there.
ExtractFrame(p) ==
    LET r == vid.runs[p]
        path == r.extracted_count
    IN  /\ r.at = "extracting"
        /\ r.extracted_count < r.length
        /\ vid' = [vid EXCEPT
                      !.tmp[path] = FileOf(p),
                      !.runs[p] = [r EXCEPT
                          !.frames = Append(r.frames, path),
                          !.extracted_count = r.extracted_count + 1,
                          !.at = IF r.extracted_count + 1 = r.length
                                 THEN "analyzing" ELSE "extracting"]]
        /\ VideoOnly

\* analyze_frame(frame_data["path"], ...): the file at the path is uploaded;
\* with no file there the upload raises, analyze_frame catches it and returns
\* an "Error in analysis" entry.
AnalyzeFrame(p) ==
    LET r == vid.runs[p]
        path == r.frames[r.i]
    IN  /\ r.at = "analyzing"
        /\ vid' = [vid EXCEPT
                      !.runs[p] = [r EXCEPT
                          !.analysed = Append(r.analysed,
                                              [path |-> path, file |-> vid.tmp[path]]),
                          !.at = "checking"]]
        /\ VideoOnly

\* Leaving the loop body: the next frame, or the return of analyze_video.
AfterFrame(r) ==
    [r EXCEPT !.i = r.i + 1,
              !.at = IF r.i = Len(r.frames) THEN "returned" ELSE "analyzing"]

\* if os.path.exists(frame_data["path"])
CheckExists(p) ==
    LET r == vid.runs[p]
        path == r.frames[r.i]
    IN  /\ r.at = "checking"
        /\ vid' = [vid EXCEPT
                      !.runs[p] = IF vid.tmp[path].exists
                                  THEN [r EXCEPT !.at = "removing"]
                                  ELSE AfterFrame(r)]
        /\ VideoOnly

\* os.remove(frame_data["path"]): raises FileNotFoundError, which leaves
\* analyze_video, when the file went away since the check.
RemoveFrame(p) ==
    LET r == vid.runs[p]
        path == r.frames[r.i]
    IN  /\ r.at = "removing"
        /\ vid' = IF vid.tmp[path].exists
                  THEN [vid EXCEPT !.tmp[path] = NoFile, !.runs[p] = AfterFrame(r)]
                  ELSE [vid EXCEPT !.runs[p] = [r EXCEPT !.at = "raised"]]
        /\ VideoOnly

NextVideo ==
    \E p \in Runs :
        \/ ExtractFrame(p)
        \/ AnalyzeFrame(p)
        \/ CheckExists(p)
        \/ RemoveFrame(p)

SpecVideo == InitVideo /\ [][NextVideo]_vars

----------------------------------------------------------------------------
(* What the properties below read from a state *)

Results == {results[k] : k \in DOMAIN results}

\* The backend's unrounded similarity between a result's observed action and
\* the description of the step it was matched to.
Raw(r) == model[<<r.observed_action, r.matched_sop_step>>]

\* The observation a result was derived from.
ObsOf(r) == video_actions[r.frame_number + 1]

\* Every required item occurs, compared case-insensitively, among the observed.
Covers(observed, required) ==
    \A q \in Range(required) : \E o \in Range(observed) : Lower(o) = Lower(q)

ToolsCovered(r) ==
    Covers(ObsOf(r).tools_visible, sop.steps[r.step_number].required_tools)

EquipmentCovered(r) ==
    Covers(ObsOf(r).safety_equipment, sop.safety_equipment)

InRange(t) == 0 < t /\ t < ScoreScale

Rank(sev) == CASE sev = "none" -> 0 [] sev = "low" -> 1 [] sev = "medium" -> 2 [] sev = "high" -> 3

----------------------------------------------------------------------------
(* C1 *)

\* C1: in every result of analyze_sequence, is_deviation is true exactly when
\* the similarity is below the threshold, or the tool check is non-compliant,
\* or the safety check is non-compliant.
C1_IsDeviationIff ==
    \A r \in Results :
        r.is_deviation <=>
            (Raw(r) < threshold \/ ~ToolsCovered(r) \/ ~EquipmentCovered(r))

\* A deviation that rests on the safety check alone.
C1_Witness ==
    /\ pc = "analyzed"
    /\ \E r \in Results :
          /\ r.is_deviation
          /\ Raw(r) >= threshold
          /\ ToolsCovered(r)
          /\ ~EquipmentCovered(r)

----------------------------------------------------------------------------
(* C2 *)

\* C2 as stated: for every threshold in (0,1), a result whose similarity is
\* below 0.5 is a deviation of severity high.
C2_Rule1AnyThreshold ==
    \A r \in Results :
        (InRange(threshold) /\ Raw(r) < Half) =>
            (r.is_deviation /\ r.severity = "high")

\* C2 (amended): for every threshold in [0.5, 1) and every tool/safety
\* outcome, a result whose similarity is below 0.5 is a deviation of severity
\* high.
C2_Rule1ThresholdAtLeastHalf ==
    \A r \in Results :
        (Half <= threshold /\ threshold < ScoreScale /\ Raw(r) < Half) =>
            (r.is_deviation /\ r.severity = "high")

\* Rule 1 alone: a low score with both checks passing, under the default threshold.
C2_Witness ==
    /\ pc = "analyzed"
    /\ threshold = DefaultThreshold
    /\ \E r \in Results :
          /\ Raw(r) < Half
          /\ ToolsCovered(r)
          /\ EquipmentCovered(r)
          /\ r.is_deviation
          /\ r.severity = "high"

----------------------------------------------------------------------------
(* C3 *)

SameChecks(r1, r2) ==
    /\ r1.tool_compliance.is_compliant = r2.tool_compliance.is_compliant
    /\ r1.safety_compliance.is_compliant = r2.safety_compliance.is_compliant

\* C3 as stated: two results of one run (one threshold) with the same tool and
\* safety outcomes are ranked monotonically: the lower similarity never has
\* the lower severity rank.
C3_Monotone ==
    \A r1, r2 \in Results :
        (SameChecks(r1, r2) /\ Raw(r1) <= Raw(r2)) =>
            Rank(r1.severity) >= Rank(r2.severity)

\* C3 (amended): the same, provided the safety check is compliant or the
\* threshold is at most 0.5.
C3_MonotoneWhenSafe ==
    \A r1, r2 \in Results :
        (/\ SameChecks(r1, r2)
         /\ Raw(r1) <= Raw(r2)
         /\ (EquipmentCovered(r1) \/ threshold <= Half)) =>
            Rank(r1.severity) >= Rank(r2.severity)

\* Two results with the same outcomes, a compliant safety check, and severities
\* that differ with the score.
C3_Witness ==
    /\ pc = "analyzed"
    /\ \E r1, r2 \in Results :
          /\ SameChecks(r1, r2)
          /\ EquipmentCovered(r1)
          /\ Raw(r1) < Raw(r2)
          /\ Rank(r1.severity) > Rank(r2.severity)

----------------------------------------------------------------------------
(* C4 *)

\* C4: a comparator whose threshold is <= 0 or >= 1 never produces an
\* EvaluationResult, whether the threshold came from the environment or from
\* the command line.
C4_NoResultOutOfRange ==
    ~InRange(threshold) => Len(results) = 0

----------------------------------------------------------------------------
(* C5 *)

\* C5: with a similarity of at least 0.5 and at least the threshold, a
\* non-compliant safety check gives severity high whatever the tool check
\* says, a compliant safety check with a non-compliant tool check gives
\* severity medium, and both are deviations.
C5_Rules3And4 ==
    \A r \in Results :
        (Raw(r) >= Half /\ Raw(r) >= threshold) =>
            /\ ~EquipmentCovered(r) => (r.is_deviation /\ r.severity = "high")
            /\ (EquipmentCovered(r) /\ ~ToolsCovered(r)) =>
                   (r.is_deviation /\ r.severity = "medium")

\* One run showing rule 3 with both checks failing and rule 4.
C5_Witness ==
    /\ pc = "analyzed"
    /\ \E r3, r4 \in Results :
          /\ Raw(r3) >= Half /\ Raw(r3) >= threshold
          /\ ~EquipmentCovered(r3) /\ ~ToolsCovered(r3)
          /\ r3.severity = "high"
          /\ Raw(r4) >= Half /\ Raw(r4) >= threshold
          /\ EquipmentCovered(r4) /\ ~ToolsCovered(r4)
          /\ r4.severity = "medium"

----------------------------------------------------------------------------
(* C6 *)

\* The required equipment, lower-cased, that the observation does not show.
MissingEquipment(r) ==
    {Lower(q) : q \in {x \in Range(sop.safety_equipment) :
                          \A o \in Range(ObsOf(r).safety_equipment) : Lower(o) # Lower(x)}}

\* C6: with 0.5 <= similarity < threshold the result is a deviation of
\* severity medium even when the safety check is non-compliant, and the
\* non-compliance shows in the safety-check field: is_compliant is false and
\* the missing items are listed.
C6_Rule2BeforeSafety ==
    \A r \in Results :
        (Half <= Raw(r) /\ Raw(r) < threshold) =>
            /\ r.is_deviation
            /\ r.severity = "medium"
            /\ ~EquipmentCovered(r) =>
                   /\ r.safety_compliance.is_compliant = FALSE
                   /\ Range(r.safety_compliance.missing_equipment) = MissingEquipment(r)
                   /\ MissingEquipment(r) # {}

C6_Witness ==
    /\ pc = "analyzed"
    /\ \E r \in Results :
          /\ Half <= Raw(r) /\ Raw(r) < threshold
          /\ ~EquipmentCovered(r)
          /\ r.severity = "medium"
          /\ r.safety_compliance.missing_equipment = <<"hard hat">>

----------------------------------------------------------------------------
(* C7 *)

\* C7: in every result severity is none exactly when is_deviation is false, a
\* deviating result carries medium or high, and an observation with
\* similarity >= threshold whose tools cover the matched step's required tools
\* and whose equipment covers the SOP's safety equipment is not a deviation
\* and has severity none.
C7_SeverityNoneIffNoDeviation ==
    \A r \in Results :
        /\ (r.severity = "none") <=> ~r.is_deviation
        /\ r.is_deviation => r.severity \in {"medium", "high"}
        /\ (Raw(r) >= threshold /\ ToolsCovered(r) /\ EquipmentCovered(r)) =>
               (~r.is_deviation /\ r.severity = "none")

\* A compliant result beside a deviating one.
C7_Witness ==
    /\ pc = "analyzed"
    /\ \E r1, r2 \in Results :
          /\ Raw(r1) >= threshold /\ ToolsCovered(r1) /\ EquipmentCovered(r1)
          /\ r1.severity = "none"
          /\ r2.is_deviation

----------------------------------------------------------------------------
(* C8 *)

\* find_best_match has been called: directly, or by analyze_sequence for its
\* first observation.
MatcherCalled ==
    \/ pc = "matched"
    \/ pc \in {"analyzed", "failed"} /\ Len(video_actions) > 0

\* C8: with an empty step list find_best_match fails with InvalidInput and
\* returns no match, and analyze_sequence yields that error and no results.
C8_EmptyStepsInvalidInput ==
    (MatcherCalled /\ Len(sop.steps) = 0) =>
        /\ error = "InvalidInput"
        /\ match = NoMatch
        /\ results = <<>>

----------------------------------------------------------------------------
(* C9 *)

\* The backend's similarities between an action and every step of the SOP.
StepScore(a, j) == model[<<a, sop.steps[j].action>>]

\* C9: on a non-empty step list (and a backend that answers) find_best_match
\* returns a step whose
\* similarity is the maximum over all steps and, among the steps that reach
\* the maximum, the one with the smallest index; observations with the same
\* action are matched to the same step.
C9_MaxAndFirst ==
    /\ (pc = "matched" /\ Len(sop.steps) > 0 /\ error = "none") =>
          /\ match.raised = "none"
          /\ \A j \in 1..Len(sop.steps) :
                /\ StepScore(match_arg, j) <= match.score
                /\ j < match.idx + 1 => StepScore(match_arg, j) < match.score
    /\ \A r \in Results :
          \A j \in 1..Len(sop.steps) :
             /\ StepScore(r.observed_action, j) <= Raw(r)
             /\ j < r.step_number => StepScore(r.observed_action, j) < Raw(r)
    /\ \A r1, r2 \in Results :
          r1.observed_action = r2.observed_action => r1.step_number = r2.step_number

\* Two steps tie on the maximum and the first is returned.
C9_Witness ==
    /\ pc = "matched"
    /\ Len(sop.steps) = 2
    /\ match.raised = "none"
    /\ StepScore(match_arg, 1) = StepScore(match_arg, 2)
    /\ sop.steps[1] # sop.steps[2]
    /\ match.idx = 0

----------------------------------------------------------------------------
(* C10 *)

\* C10: on a non-empty step list (and a backend that answers) find_best_match
\* returns an index i with
\* 0 <= i < len(steps), the step steps[i], and as score the backend's
\* similarity between the action and the description of steps[i].
C10_IndexStepScore ==
    (pc = "matched" /\ Len(sop.steps) > 0 /\ error = "none") =>
        /\ match.raised = "none"
        /\ 0 <= match.idx /\ match.idx < Len(sop.steps)
        /\ match.step = sop.steps[match.idx + 1]
        /\ match.score = StepScore(match_arg, match.idx + 1)

\* A match on the second of two different steps.
C10_Witness ==
    /\ pc = "matched"
    /\ Len(sop.steps) = 2
    /\ match.raised = "none"
    /\ match.idx = 1
    /\ match.step = sop.steps[2]
    /\ sop.steps[1] # sop.steps[2]

----------------------------------------------------------------------------
(* C11 *)

\* The backend was asked to encode for the fault-th time: the first call of
\* find_best_match always asks, a later one only when the ones before returned,
\* which they do on a non-empty step list.
BackendRaised ==
    /\ fault > 0
    /\ pc \in {"matched", "analyzed", "failed"}
    /\ fault = 1 \/ Len(sop.steps) > 0

\* C11: when the backend fails while an observation is being processed, the
\* failure leaves find_best_match and analyze_sequence as it was raised: the
\* run is aborted, no result list (not even that of the observations before)
\* is returned and no summary is generated.
C11_ProviderFailureAborts ==
    BackendRaised =>
        /\ pc \in {"matched", "failed"}
        /\ error = "BackendError"
        /\ match = NoMatch
        /\ results = <<>>
        /\ summary = NoSummary

\* The backend fails on the second observation, after the first was evaluated.
C11_Witness ==
    /\ pc = "failed"
    /\ Len(video_actions) = 2
    /\ Len(sop.steps) > 0
    /\ fault = 2
    /\ error = "BackendError"
    /\ results = <<>>
    /\ summary = NoSummary

----------------------------------------------------------------------------
(* C12 *)

LacksField(d, keys) == \E k \in keys : k \notin DOMAIN d

\* An observation or a step that analyze_sequence read lacks a required field
\* (the step list is not empty and the backend answers).
MalformedInputRead ==
    /\ pc \in {"analyzed", "failed"}
    /\ fault = 0
    /\ Len(sop.steps) > 0
    /\ \/ \E i \in DOMAIN video_actions :
             LacksField(video_actions[i],
                        {"timestamp", "worker_action", "tools_visible", "safety_equipment"})
       \/ /\ Len(video_actions) > 0
          /\ \E j \in DOMAIN sop.steps :
                LacksField(sop.steps[j], {"action", "required_tools"})

\* C12: an SOP step or an observation that lacks a required field makes the
\* run fail (whatever the error raised is called); it is never evaluated with
\* a default in the field's place and yields no EvaluationResult.
C12_MalformedInputRejected ==
    MalformedInputRead => (error # "none" /\ results = <<>>)

----------------------------------------------------------------------------
(* C13 - C17: the two checks on one (observed, required) pair *)

ToolChecked == chk.tool # NoCheck
SafetyChecked == chk.safety # NoCheck

\* The required items, lower-cased, that do not occur among the observed.
NotObserved(observed, required) ==
    {Lower(q) : q \in {x \in Range(required) : ~Covers(observed, <<x>>)}}

\* How many entries of the required list are not observed.
NotObservedCount(observed, required) ==
    Cardinality({j \in 1..Len(required) : ~Covers(observed, <<required[j]>>)})

\* The observed items, lower-cased, that are not empty and not required.
NotRequired(observed, required) ==
    {Lower(o) : o \in {x \in Range(observed) :
                          Lower(x) # "" /\ \A q \in Range(required) : Lower(q) # Lower(x)}}

\* C13: for both checks is_compliant is true exactly when every required
\* item, compared case-insensitively, is among the observed; with nothing
\* required the result is compliant with nothing missing.
C13_CompliantIffCovered ==
    /\ ToolChecked =>
          /\ chk.tool.is_compliant <=> Covers(chk.observed, chk.required)
          /\ chk.required = <<>> =>
                (chk.tool.is_compliant /\ chk.tool.missing_tools = <<>>)
    /\ SafetyChecked =>
          /\ chk.safety.is_compliant <=> Covers(chk.observed, chk.required)
          /\ chk.required = <<>> =>
                (chk.safety.is_compliant /\ chk.safety.missing_equipment = <<>>)

\* Both checks pass on names that differ in case only.
C13_Witness ==
    /\ ToolChecked /\ SafetyChecked
    /\ chk.required = <<"Drill", "screws">>
    /\ chk.observed = <<"screws", "drill">>
    /\ chk.tool.is_compliant
    /\ chk.safety.is_compliant

\* C14: for both checks the missing items are exactly the required items,
\* lower-cased, that do not occur among the lower-cased observed, and
\* is_compliant is true exactly when nothing is missing.
C14_MissingExact ==
    /\ ToolChecked =>
          /\ Range(chk.tool.missing_tools) = NotObserved(chk.observed, chk.required)
          /\ Len(chk.tool.missing_tools) = NotObservedCount(chk.observed, chk.required)
          /\ chk.tool.is_compliant <=> (chk.tool.missing_tools = <<>>)
    /\ SafetyChecked =>
          /\ Range(chk.safety.missing_equipment) = NotObserved(chk.observed, chk.required)
          /\ Len(chk.safety.missing_equipment) = NotObservedCount(chk.observed, chk.required)
          /\ chk.safety.is_compliant <=> (chk.safety.missing_equipment = <<>>)

\* observed {drill} against required {drill, screws}.
C14_Witness ==
    /\ ToolChecked /\ SafetyChecked
    /\ chk.observed = <<"drill">>
    /\ chk.required = <<"drill", "screws">>
    /\ chk.tool.is_compliant = FALSE
    /\ chk.tool.missing_tools = <<"screws">>
    /\ chk.safety.is_compliant = FALSE
    /\ chk.safety.missing_equipment = <<"screws">>

\* Whether the observation is a deviation for some score, threshold and safety outcome.
DeviationWith(tool_check, sim, thr, safe) ==
    IsDeviation(sim, thr, tool_check, [is_compliant |-> safe])

\* C15: the extraneous list of the tool check is exactly the observed
\* non-empty items that are not required, and adding an item to observed
\* never turns a compliant check non-compliant nor makes a deviation of an
\* observation that was none.
C15_ExtraneousNotEnforced ==
    ToolChecked =>
        /\ Range(chk.tool.wrong_tools) = NotRequired(chk.observed, chk.required)
        /\ \A x \in Items :
              LET more == check_tool_compliance(Append(chk.observed, x), chk.required)
              IN  /\ chk.tool.is_compliant => more.is_compliant
                  /\ \A sim \in Scores, thr \in Thresholds, safe \in BOOLEAN :
                        DeviationWith(more, sim, thr, safe) =>
                            DeviationWith(chk.tool, sim, thr, safe)

\* A compliant tool check that reports an extraneous tool.
C15_Witness ==
    /\ ToolChecked
    /\ chk.observed = <<"drill", "screws">>
    /\ chk.required = <<"Drill">>
    /\ chk.tool.is_compliant
    /\ chk.tool.wrong_tools = <<"screws">>

\* C16: adding an empty string to observed changes neither is_compliant nor
\* missing nor extraneous, for both checks and every pair of lists.
C16_EmptyObservedIgnored ==
    /\ ToolChecked =>
          LET more == check_tool_compliance(Append(chk.observed, ""), chk.required)
          IN  /\ more.is_compliant = chk.tool.is_compliant
              /\ more.missing_tools = chk.tool.missing_tools
              /\ more.wrong_tools = chk.tool.wrong_tools
    /\ SafetyChecked =>
          LET more == check_safety_equipment(Append(chk.observed, ""), chk.required)
          IN  /\ more.is_compliant = chk.safety.is_compliant
              /\ more.missing_equipment = chk.safety.missing_equipment

\* C17 as stated: on the same pair the two checks return the same
\* is_compliant, the same missing items and the same extraneous items (a
\* check that reports none is read as reporting the empty list).
C17_SameCheck ==
    (ToolChecked /\ SafetyChecked) =>
        /\ chk.tool.is_compliant = chk.safety.is_compliant
        /\ chk.tool.missing_tools = chk.safety.missing_equipment
        /\ Get(chk.tool, "wrong_tools", <<>>) = Get(chk.safety, "wrong_tools", <<>>)

\* C17 (amended): on the same pair the two checks return the same
\* is_compliant and the same missing items (and the same lower-cased observed
\* and required lists); extraneous items are reported by the tool check only.
C17_SameVerdictAndMissing ==
    (ToolChecked /\ SafetyChecked) =>
        /\ chk.tool.is_compliant = chk.safety.is_compliant
        /\ chk.tool.missing_tools = chk.safety.missing_equipment
        /\ chk.tool.observed = chk.safety.observed
        /\ chk.tool.required = chk.safety.required
        /\ "wrong_tools" \in DOMAIN chk.tool
        /\ "wrong_tools" \notin DOMAIN chk.safety

\* Both checks fail alike while only the tool check reports the extra item.
C17_Witness ==
    /\ ToolChecked /\ SafetyChecked
    /\ chk.observed = <<"screws">>
    /\ chk.required = <<"Drill">>
    /\ chk.tool.is_compliant = FALSE
    /\ chk.safety.is_compliant = FALSE
    /\ chk.tool.missing_tools = <<"drill">>
    /\ chk.safety.missing_equipment = <<"drill">>
    /\ chk.tool.wrong_tools = <<"screws">>

----------------------------------------------------------------------------
(* C18 - C20: the sequence and its results *)

Analyzed == pc = "analyzed"

\* C18: analyze_sequence returns one result per observation, in the order
\* supplied: result i is numbered i (from 0) and carries the timestamp, the
\* described action and the hazard list of observation i unchanged.
C18_OneResultPerObservationInOrder ==
    Analyzed =>
        /\ Len(results) = Len(video_actions)
        /\ \A i \in 1..Len(results) :
              /\ results[i].frame_number = i - 1
              /\ results[i].timestamp = video_actions[i].timestamp
              /\ results[i].observed_action = video_actions[i].worker_action
              /\ results[i].potential_hazards = video_actions[i].potential_hazards

\* Two observations that differ in every passthrough field.
C18_Witness ==
    /\ Analyzed
    /\ Len(results) = 2
    /\ results[1].timestamp = 10 /\ results[2].timestamp = 5
    /\ results[1].observed_action # results[2].observed_action
    /\ results[1].potential_hazards = <<>>
    /\ results[2].potential_hazards = <<"dust">>

\* The verdict fields of a result.
Verdict(r) ==
    [matched_sop_step |-> r.matched_sop_step,
     step_number |-> r.step_number,
     similarity_score |-> r.similarity_score,
     is_deviation |-> r.is_deviation,
     severity |-> r.severity,
     tool_compliance |-> r.tool_compliance,
     safety_compliance |-> r.safety_compliance]

\* The verdict of one observation analysed alone, same SOP and threshold.
VerdictAlone(action_data) ==
    Verdict(analyze_sequence(model, threshold, <<action_data>>, sop, 0).results[1])

\* C19: the verdict of an observation (matched step, score, is_deviation,
\* severity, tool check, safety check) is the verdict it gets when analysed
\* alone with the same SOP and threshold, whatever the other observations of
\* the sequence are and wherever it stands among them.
C19_VerdictOfOwnObservationOnly ==
    Analyzed =>
        \A i \in 1..Len(results) :
            Verdict(results[i]) = VerdictAlone(video_actions[i])

\* Two different observations in one sequence, the first a deviation, the
\* second matched to step 1 and compliant.
C19_Witness ==
    /\ Analyzed
    /\ Len(results) = 2
    /\ video_actions[1] # video_actions[2]
    /\ results[1].is_deviation
    /\ ~results[2].is_deviation
    /\ results[2].step_number = 1

\* C20: each tool check is made on the observation's tools against the
\* required_tools of the step the observation was matched to, each safety
\* check on its equipment against the safety_equipment of the SOP, which is
\* the same list for every result.
C20_ChecksAgainstMatchedStepAndSop ==
    Analyzed =>
        /\ \A r \in Results :
              /\ r.tool_compliance =
                    check_tool_compliance(ObsOf(r).tools_visible,
                                          sop.steps[r.step_number].required_tools)
              /\ r.tool_compliance.required =
                    LowerAll(sop.steps[r.step_number].required_tools)
              /\ r.safety_compliance =
                    check_safety_equipment(ObsOf(r).safety_equipment, sop.safety_equipment)
              /\ r.safety_compliance.required = LowerAll(sop.safety_equipment)
        /\ \A r1, r2 \in Results :
              r1.safety_compliance.required = r2.safety_compliance.required

\* Two results matched to steps with different required tools.
C20_Witness ==
    /\ Analyzed
    /\ Len(results) = 2
    /\ results[1].step_number = 2
    /\ results[2].step_number = 1
    /\ results[1].tool_compliance.required = <<"saw">>
    /\ results[2].tool_compliance.required = <<"tape">>
    /\ results[1].safety_compliance.required = <<"hard hat">>
    /\ results[2].safety_compliance.required = <<"hard hat">>

----------------------------------------------------------------------------
(* C27: the verdict and the stored score *)

\* C27: the verdict is computed from the matcher's unrounded score: a result
\* whose unrounded score is below the threshold is a deviation with a severity
\* other than "none", also when its stored similarity_score, rounded to three
\* decimals, equals the threshold.
C27_VerdictFromUnroundedScore ==
    Analyzed =>
        \A r \in Results :
            /\ r.similarity_score = Round3(Raw(r))
            /\ Raw(r) < threshold => (r.is_deviation /\ r.severity # "none")

\* Score 0.6996 against threshold 0.70: stored as 0.700, both checks
\* compliant, and still a deviation.
C27_Witness ==
    /\ Analyzed
    /\ \E r \in Results :
          /\ Raw(r) < threshold
          /\ r.similarity_score = threshold
          /\ r.tool_compliance.is_compliant
          /\ r.safety_compliance.is_compliant
          /\ r.is_deviation
          /\ r.severity = "medium"

----------------------------------------------------------------------------
(* C23, C26: the summary of a result list that analyze_sequence produced *)

\* The positions of the results that satisfy P.
Where(P(_)) == {i \in 1..Len(results) : P(results[i])}

Deviating == Where(LAMBDA r : r.is_deviation)
HighBucket == Where(LAMBDA r : r.is_deviation /\ r.severity = "high")
MediumBucket == Where(LAMBDA r : r.is_deviation /\ r.severity = "medium")

\* C23: for a result list produced by analyze_sequence the high and medium
\* counts add up to total_deviations: every deviating result is in exactly one
\* of the two buckets and no result that is not a deviation is in either.
C23_SeverityCountsPartitionDeviations ==
    Analyzed =>
        /\ summary.total_deviations = Cardinality(Deviating)
        /\ summary.high_severity_count = Cardinality(HighBucket)
        /\ summary.medium_severity_count = Cardinality(MediumBucket)
        /\ HighBucket \cup MediumBucket = Deviating
        /\ HighBucket \cap MediumBucket = {}
        /\ summary.high_severity_count + summary.medium_severity_count
              = summary.total_deviations

\* One result in each bucket.
C23_Witness ==
    /\ Analyzed
    /\ Len(results) = 2
    /\ summary.high_severity_count = 1
    /\ summary.medium_severity_count = 1
    /\ summary.total_deviations = 2
    /\ results[1].severity = "medium"
    /\ results[2].severity = "high"

\* C26: in a result list produced by analyze_sequence every result with a
\* non-compliant tool check or safety check is a deviation, so neither
\* tool_violations nor safety_violations exceeds total_deviations.
C26_ViolationsAreDeviations ==
    Analyzed =>
        /\ \A r \in Results :
              (~r.tool_compliance.is_compliant \/ ~r.safety_compliance.is_compliant)
                  => r.is_deviation
        /\ summary.tool_violations
              = Cardinality(Where(LAMBDA r : ~r.tool_compliance.is_compliant))
        /\ summary.safety_violations
              = Cardinality(Where(LAMBDA r : ~r.safety_compliance.is_compliant))
        /\ summary.tool_violations <= summary.total_deviations
        /\ summary.safety_violations <= summary.total_deviations

\* A tool violation with a score at or above the threshold beside a result
\* that deviates without a tool violation.
C26_Witness ==
    /\ Analyzed
    /\ summary.tool_violations = 1
    /\ summary.safety_violations = 1
    /\ summary.total_deviations = 2
    /\ \E r \in Results :
          /\ ~r.tool_compliance.is_compliant
          /\ r.safety_compliance.is_compliant
          /\ Raw(r) >= threshold

----------------------------------------------------------------------------
(* C21, C22, C24, C25: generate_summary on a list of results *)

SummaryCalled == sm.phase \in {"first", "other", "again"}

\* The positions of the deviating results of a list.
DeviatingIn(rs) == {i \in 1..Len(rs) : rs[i].is_deviation}

Abs(x) == IF x < 0 THEN 0 - x ELSE x

\* The list of the test and of the aggregation scenario: no deviation at
\* 0.9, a high deviation at 0.4, no deviation at 0.85.
ScenarioList ==
    << [is_deviation |-> FALSE, severity |-> "none", similarity_score |-> 9000,
        tool_compliance |-> [is_compliant |-> TRUE],
        safety_compliance |-> [is_compliant |-> TRUE]],
       [is_deviation |-> TRUE, severity |-> "high", similarity_score |-> 4000,
        tool_compliance |-> [is_compliant |-> FALSE],
        safety_compliance |-> [is_compliant |-> FALSE], timestamp |-> 10],
       [is_deviation |-> FALSE, severity |-> "none", similarity_score |-> 8500,
        tool_compliance |-> [is_compliant |-> TRUE],
        safety_compliance |-> [is_compliant |-> TRUE]] >>

\* C21: the summary's total is the number of results, total_deviations the
\* number of results with is_deviation true, and compliance_rate (in tenths
\* of a percent) is 100 * (total - deviations) / total rounded to one
\* decimal; for the empty list the call returns with compliance_rate 0.
\* Three results with one deviation give 66.7.
C21_TotalsAndComplianceRate ==
    SummaryCalled =>
        LET total == Len(sm.arg)
            deviations == Cardinality(DeviatingIn(sm.arg))
        IN  /\ sm.out.total_frames_analyzed = total
            /\ sm.out.total_deviations = deviations
            /\ total = 0 => sm.out.compliance_rate = 0
            /\ total > 0 =>
                  2 * Abs(sm.out.compliance_rate * total - 1000 * (total - deviations))
                      <= total
            /\ (total = 3 /\ deviations = 1) => sm.out.compliance_rate = 667

\* Three results with one deviation.
C21_Witness ==
    /\ SummaryCalled
    /\ sm.arg = ScenarioList
    /\ sm.out.total_frames_analyzed = 3
    /\ sm.out.total_deviations = 1
    /\ sm.out.compliance_rate = 667

\* C22: average_similarity (in 1/ScoreScale) is the mean of the
\* similarity_score of every result of the list, deviating or not, rounded to
\* three decimals, and 0 for the empty list. Scores 0.9, 0.4, 0.85 give 0.717.
C22_AverageSimilarityIsMean ==
    SummaryCalled =>
        LET total == Len(sm.arg)
        IN  /\ total = 0 => sm.out.average_similarity = 0
            /\ total > 0 =>
                  /\ sm.out.average_similarity % 10 = 0
                  /\ Abs(sm.out.average_similarity * total - SumScores(sm.arg))
                        <= 5 * total
            /\ sm.arg = ScenarioList => sm.out.average_similarity = 7170

\* The scenario's scores, two of them of results that are no deviation.
C22_Witness ==
    /\ SummaryCalled
    /\ sm.arg = ScenarioList
    /\ SumScores(sm.arg) = 21500
    /\ sm.out.average_similarity = 7170

\* The timestamps of the deviating results of a list, in the list's order.
RECURSIVE DeviationTimes(_)
DeviationTimes(rs) ==
    IF rs = <<>> THEN <<>>
    ELSE (IF Head(rs).is_deviation THEN <<Head(rs).timestamp>> ELSE <<>>)
            \o DeviationTimes(Tail(rs))

\* C24: deviation_timestamps holds the timestamp of every deviating result
\* and of no other, in the order of the results, neither sorted nor
\* deduplicated; its length is total_deviations.
C24_DeviationTimestampsInOrder ==
    SummaryCalled =>
        /\ sm.out.deviation_timestamps = DeviationTimes(sm.arg)
        /\ Len(sm.out.deviation_timestamps) = sm.out.total_deviations

\* Timestamps out of ascending order and one of them twice.
C24_Witness ==
    /\ SummaryCalled
    /\ Len(sm.arg) = 3
    /\ sm.out.deviation_timestamps = <<10, 3, 10>>
    /\ sm.out.total_deviations = 3

----------------------------------------------------------------------------
(* C28, C29: the command-line run after the analysis *)

\* The run wrote its reports and ended with the sys.exit of the try block.
ExitedAfterReports == run.stage = "exited" /\ run.requested

\* C28: a run that completed the analysis and wrote its reports exits with
\* code 2 exactly when there is a high-severity deviation, with code 1 when
\* there are deviations but none of high severity, and with code 0 exactly
\* when there is no deviation; the generic handler, which exits with 1, does
\* not replace the requested code.
C28_ExitCodeFromSummary ==
    ExitedAfterReports =>
        /\ pc = "analyzed"
        /\ run.exit_code = 2 <=> summary.high_severity_count >= 1
        /\ run.exit_code = 2 <=> HighBucket # {}
        /\ (summary.total_deviations >= 1 /\ summary.high_severity_count = 0)
              => run.exit_code = 1
        /\ run.exit_code = 0 <=> summary.total_deviations = 0
        /\ run.exit_code = 0 <=> Deviating = {}
        /\ run.exit_code \in {0, 1, 2}

\* A run that ends with code 2 although the handler would have given 1.
C28_Witness ==
    /\ ExitedAfterReports
    /\ run.exit_code = 2
    /\ summary.high_severity_count = 1
    /\ summary.total_deviations = 2

\* The deviating results of the result list, in order.
DeviatingResults == SelectSeq(results, LAMBDA r : r.is_deviation)

\* C29: generate_batch_alerts returns one alert for every deviating result
\* and none for the others, in the order of the results, so there are as many
\* alerts as the summary of the same list has total_deviations, and
\* alert_count, 0 before the call, is the number of alerts after it.
C29_OneAlertPerDeviation ==
    run.stage = "alerted" =>
        /\ Len(run.alerts) = Len(DeviatingResults)
        /\ \A k \in 1..Len(run.alerts) :
              run.alerts[k] = generate_deviation_alert(DeviatingResults[k])
        /\ Len(run.alerts) = summary.total_deviations
        /\ run.alert_count = Len(run.alerts)

\* One deviation after a result that is none: one alert, for the second result.
C29_Witness ==
    /\ run.stage = "alerted"
    /\ Len(results) = 2
    /\ ~results[1].is_deviation
    /\ results[2].is_deviation
    /\ Len(run.alerts) = 1
    /\ run.alerts[1].time = <<0, results[2].timestamp>>
    /\ run.alerts[1].severity = "HIGH"
    /\ run.alert_count = 1

----------------------------------------------------------------------------
(* C30: two analyze_video runs at the same time *)

\* C30: every frame file a run analyses is the file that run wrote for that
\* frame, no run meets a frame file gone or replaced by the other run, and
\* when a run has returned no file it wrote is left in /tmp.
C30_RunsKeepTheirOwnFrames ==
    \A p \in Runs :
        LET r == vid.runs[p]
        IN  /\ \A k \in 1..Len(r.analysed) : r.analysed[k].file = FileOf(p)
            /\ r.at # "raised"
            /\ r.at = "returned" =>
                  \A path \in FramePaths : vid.tmp[path] # FileOf(p)

====
